---- MODULE Spec2Model ----
(***************************************************************************)
(* Model of custom.py, the "Build Your Own AI Friend" Streamlit app.       *)
(*                                                                         *)
(* The program is a script that Streamlit re-runs on every user event.     *)
(* What survives between runs is st.session_state: bot_created,            *)
(* chat_messages, bot_config and the values of the keyed form widgets.     *)
(* One action of the model is one script run with one event (a widget      *)
(* edit, a button click, a chat submission).  The only place where a run   *)
(* waits on the outside world is the completion-service call inside        *)
(* chat_response_node, so a chat turn is two steps: ChatInput runs the     *)
(* handler up to the call, ChatReturn runs it from the call's outcome to   *)
(* the end.                                                                *)
(*                                                                         *)
(* Strings are TLA+ strings and f-strings are concatenations, so the       *)
(* templates are computed as the code computes them.  The module is ASCII: *)
(* the emoji of the source are written as the stand-ins WarningSign,       *)
(* Smile and Pencil.                                                       *)
(***************************************************************************)
EXTENDS Integers, Sequences, FiniteSets, TLC

VARIABLES
    bot_created,         \* st.session_state.bot_created
    chat_messages,       \* st.session_state.chat_messages
    bot_config,          \* st.session_state.bot_config
    creator_input,       \* widget key "creator_input"
    bot_name_input,      \* widget key "bot_name_input"
    personality_select,  \* widget key "personality_select"
    custom_personality,  \* widget key "custom_personality"
    specialty_select,    \* widget key "specialty_select"
    custom_specialty,    \* widget key "custom_specialty"
    pc,                  \* "awaiting" | "processing" (blocked in the service call)
    state,               \* the ChatState built by the chat input handler
    api_messages,        \* the message list handed to the service call in flight
    calls,               \* history: number of completion-service calls made
    submitted,           \* history: number of user messages submitted
    edits,               \* history: number of edit clicks
    last_event,          \* history: the handler the latest step ran
    turn,                \* history: transcript at the start of the latest turn, its text, its outcome
    discarded            \* history: session that the latest edit left behind

widgets == <<creator_input, bot_name_input, personality_select,
             custom_personality, specialty_select, custom_specialty>>
session == <<bot_created, chat_messages, bot_config>>
inflight == <<pc, state, api_messages>>
history == <<calls, submitted, edits, last_event, turn, discarded>>
vars == <<session, widgets, inflight, history>>

----------------------------------------------------------------------------
(* Bounds *)

MaxTurns == 2      \* user messages submitted in one behaviour
MaxEdits == 1      \* edit clicks in one behaviour

----------------------------------------------------------------------------
(* Stand-ins for the non-ASCII characters of the source *)

WarningSign == "(!)"
Smile == ":)"
Pencil == "(pencil)"

(* Inputs *)

CreatorNames == {"", "Mia", "Leo"}
BotNames == {"", "Sparky", "Luna"}
SelectPersonality == "Select a personality..."
WriteYourOwn == "Write your own! " \o Pencil
personality_options == {SelectPersonality, "funny and loves to tell jokes", WriteYourOwn}
CustomPersonalities == {"", "silly"}
SelectSpecialty == "Select a specialty..."
specialty_options == {SelectSpecialty, "telling amazing stories and adventures", WriteYourOwn}
CustomSpecialties == {"", "songs"}
UserTexts == {"", "Tell me a joke", "hi"}
ReplyTexts == {"Why did the chicken..."}
ErrorTexts == {"Connection error."}
Outcomes == [ok : {TRUE}, text : ReplyTexts] \cup [ok : {FALSE}, text : ErrorTexts]

----------------------------------------------------------------------------
(* Pure functions *)

Range(s) == {s[i] : i \in 1..Len(s)}

\* substring test on strings
Contains(s, m) ==
    \E i \in 1..(Len(s) - Len(m) + 1) : SubSeq(s, i, i + Len(m) - 1) = m

ChatState(m, bn, bp, bs, cn, sp) ==
    [messages |-> m, bot_name |-> bn, bot_personality |-> bp,
     bot_specialty |-> bs, creator_name |-> cn, system_prompt |-> sp]

NoState == ChatState(<<>>, "", "", "", "", "")

SystemPromptTemplate(bn, cn, bp, bs) ==
    "You are " \o bn \o ", a friendly AI assistant created by " \o cn \o ".\n\n"
    \o "Your personality: You are " \o bp \o ".\n\n"
    \o "Your special skill: You are especially good at " \o bs \o ".\n\n"
    \o "Guidelines:\n"
    \o "- Always be friendly, encouraging, and patient\n"
    \o "- Use simple language that kids can understand\n"
    \o "- Add emojis to make conversations fun! " \o Smile \o "\n"
    \o "- If you don't know something, be honest about it\n"
    \o "- Always try to teach something new in a fun way\n"
    \o "- Keep your responses appropriate for children aged 8-14\n"
    \o "- Stay true to your personality in every response\n"
    \o "- Remember you were created by " \o cn \o " - they made you special!"

build_system_prompt_node(st) ==
    [st EXCEPT !.system_prompt =
        SystemPromptTemplate(st.bot_name, st.creator_name,
                             st.bot_personality, st.bot_specialty)]

GreetingContent(cn, bn) ==
    "Hi " \o cn \o "! I'm " \o bn \o ", your AI friend! " \o Smile
    \o " I'm so excited to chat with you! What would you like to talk about today?"

Greeting(cn, bn) == [role |-> "assistant", content |-> GreetingContent(cn, bn)]

UserMessage(u) == [role |-> "user", content |-> u]

\* variant: the failure text alone, without the fixed wording around it
ErrorContent_Bare(e) == e

\* variant: the failure text is cut out of the message
ErrorContent_NoDetail(e) ==
    WarningSign \o " Oops! Something went wrong: "
    \o "\n\nMake sure the API key is set correctly!"

ErrorContent(e) ==
    WarningSign \o " Oops! Something went wrong: " \o e
    \o "\n\nMake sure the API key is set correctly!"

\* variant: the system message is put after the transcript
BuildApiMessages_SystemLast(st) ==
    st.messages \o <<[role |-> "system", content |-> st.system_prompt]>>

\* chat_response_node up to the service call: the request it builds
BuildApiMessages(st) ==
    <<[role |-> "system", content |-> st.system_prompt]>> \o st.messages

\* variant: the reply replaces the transcript instead of extending it
chat_response_node_Overwrite(st, outcome) ==
    IF outcome.ok
    THEN [st EXCEPT !.messages = <<[role |-> "assistant", content |-> outcome.text]>>]
    ELSE [st EXCEPT !.messages =
            <<[role |-> "assistant", content |-> ErrorContent(outcome.text)]>>]

\* variant: a failure is not turned into a message
chat_response_node_Drop(st, outcome) ==
    IF outcome.ok
    THEN [st EXCEPT !.messages =
            Append(st.messages, [role |-> "assistant", content |-> outcome.text])]
    ELSE st

\* chat_response_node from the outcome of the service call to its return
chat_response_node(st, outcome) ==
    IF outcome.ok
    THEN [st EXCEPT !.messages =
            Append(st.messages, [role |-> "assistant", content |-> outcome.text])]
    ELSE [st EXCEPT !.messages =
            Append(st.messages, [role |-> "assistant", content |-> ErrorContent(outcome.text)])]

\* values the creation form computes from the widgets
bot_personality ==
    IF personality_select = WriteYourOwn THEN custom_personality
    ELSE IF personality_select # SelectPersonality THEN personality_select
    ELSE ""

bot_specialty ==
    IF specialty_select = WriteYourOwn THEN custom_specialty
    ELSE IF specialty_select # SelectSpecialty THEN specialty_select
    ELSE ""

\* variant: the creator's name is not checked
FormComplete_NoCreator ==
    bot_name_input # "" /\ bot_personality # "" /\ bot_specialty # ""

\* the condition under which the preview and the create button are rendered
FormComplete ==
    bot_name_input # "" /\ bot_personality # "" /\ bot_specialty # "" /\ creator_input # ""

InitConfig ==
    [bot_name |-> "", creator_name |-> "", bot_personality |-> "",
     bot_specialty |-> "", system_prompt |-> ""]

NoOutcome == [ok |-> TRUE, text |-> ""]
NoTurn == [T |-> <<>>, U |-> "", outcome |-> NoOutcome]
NoSession == [config |-> InitConfig, messages |-> <<>>]

----------------------------------------------------------------------------
(* Initial state *)

Init ==
    /\ bot_created = FALSE
    /\ chat_messages = <<>>
    /\ bot_config = InitConfig
    /\ creator_input = ""
    /\ bot_name_input = ""
    /\ personality_select = SelectPersonality
    /\ custom_personality = ""
    /\ specialty_select = SelectSpecialty
    /\ custom_specialty = ""
    /\ pc = "awaiting"
    /\ state = NoState
    /\ api_messages = <<>>
    /\ calls = 0
    /\ submitted = 0
    /\ edits = 0
    /\ last_event = "init"
    /\ turn = NoTurn
    /\ discarded = NoSession

----------------------------------------------------------------------------
(* Creation form: one script run per widget edit *)

FormOpen == ~bot_created /\ pc = "awaiting"

SetCreatorName(v) ==
    /\ FormOpen
    /\ v # creator_input
    /\ creator_input' = v
    /\ last_event' = "form"
    /\ UNCHANGED <<session, inflight, calls, submitted, edits, turn, discarded,
                   bot_name_input, personality_select, custom_personality,
                   specialty_select, custom_specialty>>

SetBotName(v) ==
    /\ FormOpen
    /\ v # bot_name_input
    /\ bot_name_input' = v
    /\ last_event' = "form"
    /\ UNCHANGED <<session, inflight, calls, submitted, edits, turn, discarded,
                   creator_input, personality_select, custom_personality,
                   specialty_select, custom_specialty>>

\* the custom text input exists only while "Write your own!" is selected;
\* Streamlit drops the value of a widget that a run does not render
SelectPersonalityChoice(v) ==
    /\ FormOpen
    /\ v # personality_select
    /\ personality_select' = v
    /\ custom_personality' = ""
    /\ last_event' = "form"
    /\ UNCHANGED <<session, inflight, calls, submitted, edits, turn, discarded,
                   creator_input, bot_name_input, specialty_select, custom_specialty>>

SetCustomPersonality(v) ==
    /\ FormOpen
    /\ personality_select = WriteYourOwn
    /\ v # custom_personality
    /\ custom_personality' = v
    /\ last_event' = "form"
    /\ UNCHANGED <<session, inflight, calls, submitted, edits, turn, discarded,
                   creator_input, bot_name_input, personality_select,
                   specialty_select, custom_specialty>>

SelectSpecialtyChoice(v) ==
    /\ FormOpen
    /\ v # specialty_select
    /\ specialty_select' = v
    /\ custom_specialty' = ""
    /\ last_event' = "form"
    /\ UNCHANGED <<session, inflight, calls, submitted, edits, turn, discarded,
                   creator_input, bot_name_input, personality_select, custom_personality>>

SetCustomSpecialty(v) ==
    /\ FormOpen
    /\ specialty_select = WriteYourOwn
    /\ v # custom_specialty
    /\ custom_specialty' = v
    /\ last_event' = "form"
    /\ UNCHANGED <<session, inflight, calls, submitted, edits, turn, discarded,
                   creator_input, bot_name_input, personality_select,
                   custom_personality, specialty_select>>

\* the rerun after a create renders the chat view, not the form, so the
\* form widgets lose their values
ResetWidgets ==
    /\ creator_input' = ""
    /\ bot_name_input' = ""
    /\ personality_select' = SelectPersonality
    /\ custom_personality' = ""
    /\ specialty_select' = SelectSpecialty
    /\ custom_specialty' = ""

\* variant: a system prompt that is already stored is kept
CreateBot_StalePrompt ==
    /\ FormOpen
    /\ FormComplete
    /\ LET st == ChatState(<<>>, bot_name_input, bot_personality,
                           bot_specialty, creator_input, "")
           result == build_system_prompt_node(st)
       IN bot_config' = [bot_name |-> bot_name_input,
                         creator_name |-> creator_input,
                         bot_personality |-> bot_personality,
                         bot_specialty |-> bot_specialty,
                         system_prompt |-> IF bot_config.system_prompt # ""
                                           THEN bot_config.system_prompt
                                           ELSE result.system_prompt]
    /\ chat_messages' = <<Greeting(creator_input, bot_name_input)>>
    /\ bot_created' = TRUE
    /\ ResetWidgets
    /\ last_event' = "create"
    /\ turn' = NoTurn
    /\ UNCHANGED <<inflight, calls, submitted, edits, discarded>>

\* variant: the greeting is seeded only into an empty transcript
CreateBot_KeepChat ==
    /\ FormOpen
    /\ FormComplete
    /\ LET st == ChatState(<<>>, bot_name_input, bot_personality,
                           bot_specialty, creator_input, "")
           result == build_system_prompt_node(st)
       IN bot_config' = [bot_name |-> bot_name_input,
                         creator_name |-> creator_input,
                         bot_personality |-> bot_personality,
                         bot_specialty |-> bot_specialty,
                         system_prompt |-> result.system_prompt]
    /\ chat_messages' = IF chat_messages = <<>>
                        THEN <<Greeting(creator_input, bot_name_input)>>
                        ELSE chat_messages
    /\ bot_created' = TRUE
    /\ ResetWidgets
    /\ last_event' = "create"
    /\ turn' = NoTurn
    /\ UNCHANGED <<inflight, calls, submitted, edits, discarded>>

\* "Create My AI Friend!" button
CreateBot ==
    /\ FormOpen
    /\ FormComplete
    /\ LET st == ChatState(<<>>, bot_name_input, bot_personality,
                           bot_specialty, creator_input, "")
           result == build_system_prompt_node(st)
       IN bot_config' = [bot_name |-> bot_name_input,
                         creator_name |-> creator_input,
                         bot_personality |-> bot_personality,
                         bot_specialty |-> bot_specialty,
                         system_prompt |-> result.system_prompt]
    /\ chat_messages' = <<Greeting(creator_input, bot_name_input)>>
    /\ bot_created' = TRUE
    /\ ResetWidgets
    /\ last_event' = "create"
    /\ turn' = NoTurn
    /\ UNCHANGED <<inflight, calls, submitted, edits, discarded>>

----------------------------------------------------------------------------
(* Chat view *)

ChatOpen == bot_created /\ pc = "awaiting"

\* "Edit Bot" button
EditBot ==
    /\ ChatOpen
    /\ edits < MaxEdits
    /\ edits' = edits + 1
    /\ bot_created' = FALSE
    /\ discarded' = [config |-> bot_config, messages |-> chat_messages]
    /\ last_event' = "edit"
    /\ turn' = NoTurn
    /\ UNCHANGED <<chat_messages, bot_config, widgets, inflight, calls, submitted>>

\* variant: the transcript is emptied and the stored persona is reset with it
ClearChat_ResetAll ==
    /\ ChatOpen
    /\ chat_messages' = <<>>
    /\ bot_config' = InitConfig
    /\ last_event' = "clear"
    /\ turn' = NoTurn
    /\ discarded' = NoSession
    /\ UNCHANGED <<bot_created, widgets, inflight, calls, submitted, edits>>

\* "Clear Chat" button
ClearChat ==
    /\ ChatOpen
    /\ chat_messages' = <<Greeting(bot_config.creator_name, bot_config.bot_name)>>
    /\ last_event' = "clear"
    /\ turn' = NoTurn
    /\ discarded' = NoSession
    /\ UNCHANGED <<bot_created, bot_config, widgets, inflight, calls, submitted, edits>>

\* chat input handler up to the completion-service call
ChatInput(user_input) ==
    /\ ChatOpen
    /\ user_input # ""
    /\ submitted < MaxTurns
    /\ LET appended == Append(chat_messages, UserMessage(user_input))
           st == ChatState(appended, bot_config.bot_name, bot_config.bot_personality,
                           bot_config.bot_specialty, bot_config.creator_name,
                           bot_config.system_prompt)
       IN /\ chat_messages' = appended
          /\ state' = st
          /\ api_messages' = BuildApiMessages(st)
    /\ calls' = calls + 1
    /\ submitted' = submitted + 1
    /\ pc' = "processing"
    /\ last_event' = "submit"
    /\ turn' = [T |-> chat_messages, U |-> user_input, outcome |-> NoOutcome]
    /\ discarded' = NoSession
    /\ UNCHANGED <<bot_created, bot_config, widgets, edits>>

\* variant: a failed call is made a second time
ChatReturn_Retry(outcome) ==
    /\ pc = "processing"
    /\ LET result == chat_response_node(state, outcome)
       IN chat_messages' = result.messages
    /\ state' = NoState
    /\ api_messages' = <<>>
    /\ pc' = "awaiting"
    /\ last_event' = "reply"
    /\ turn' = [turn EXCEPT !.outcome = outcome]
    /\ calls' = IF outcome.ok THEN calls ELSE calls + 1
    /\ UNCHANGED <<bot_created, bot_config, widgets, submitted, edits, discarded>>

\* the service call returns or raises; the handler stores the result
ChatReturn(outcome) ==
    /\ pc = "processing"
    /\ LET result == chat_response_node(state, outcome)
       IN chat_messages' = result.messages
    /\ state' = NoState
    /\ api_messages' = <<>>
    /\ pc' = "awaiting"
    /\ last_event' = "reply"
    /\ turn' = [turn EXCEPT !.outcome = outcome]
    /\ UNCHANGED <<bot_created, bot_config, widgets, calls, submitted, edits, discarded>>

----------------------------------------------------------------------------

Next ==
    \/ \E v \in CreatorNames : SetCreatorName(v)
    \/ \E v \in BotNames : SetBotName(v)
    \/ \E v \in personality_options : SelectPersonalityChoice(v)
    \/ \E v \in CustomPersonalities : SetCustomPersonality(v)
    \/ \E v \in specialty_options : SelectSpecialtyChoice(v)
    \/ \E v \in CustomSpecialties : SetCustomSpecialty(v)
    \/ CreateBot
    \/ EditBot
    \/ ClearChat
    \/ \E u \in UserTexts : ChatInput(u)
    \/ \E o \in Outcomes : ChatReturn(o)

Spec == Init /\ [][Next]_vars

\* the service call is synchronous: it returns or raises
FairSpec == Spec /\ WF_vars(\E o \in Outcomes : ChatReturn(o))

----------------------------------------------------------------------------
(* Properties *)

Last(m) == m[Len(m)]

TurnDone == last_event = "reply"

\* C1: a completed turn leaves the transcript equal to the transcript T it
\* started from followed by exactly two entries, the user entry for the
\* submitted text U and then one assistant entry; the length grows by 2, the
\* second-to-last entry is the user entry and the entries of T are unchanged.
C1_TurnAppendsTwo ==
    TurnDone =>
        /\ turn.U # ""
        /\ Len(chat_messages) = Len(turn.T) + 2
        /\ SubSeq(chat_messages, 1, Len(turn.T)) = turn.T
        /\ chat_messages[Len(chat_messages) - 1] = [role |-> "user", content |-> turn.U]
        /\ Last(chat_messages).role = "assistant"
        /\ Last(chat_messages).content \in
              ReplyTexts \cup {ErrorContent(e) : e \in ErrorTexts}

C1_Witness ==
    /\ TurnDone
    /\ Len(turn.T) = 3
    /\ turn.U = "Tell me a joke"
    /\ turn.outcome.ok

\* C2: when the service call of a turn fails, the turn still completes (the
\* handler returns to awaiting input with the session intact) and the last
\* transcript entry has role assistant and a content containing the marker
\* "Oops! Something went wrong".
C2_FailureSwallowed ==
    (TurnDone /\ ~turn.outcome.ok) =>
        /\ pc = "awaiting"
        /\ bot_created
        /\ Last(chat_messages).role = "assistant"
        /\ Contains(Last(chat_messages).content, "Oops! Something went wrong")

C2_Witness ==
    /\ TurnDone
    /\ ~turn.outcome.ok
    /\ turn.outcome.text = "Connection error."
    /\ Len(chat_messages) = 3

StoredPromptIsTemplate ==
    bot_config.system_prompt =
        SystemPromptTemplate(bot_config.bot_name, bot_config.creator_name,
                             bot_config.bot_personality, bot_config.bot_specialty)

\* C3 as stated: in every reachable state, the initial one included, the
\* stored system prompt is the template applied to the four stored persona
\* fields, and a request in flight carries that prompt.
C3_Original ==
    /\ StoredPromptIsTemplate
    /\ pc = "processing" => api_messages[1].content = bot_config.system_prompt

\* C3 (amended): before the first create confirmation the stored persona
\* fields and the stored system prompt are all empty strings; from the first
\* confirmation on, the stored system prompt is the template applied to the
\* four stored persona fields, and a request in flight carries that prompt.
C3_PromptMatchesPersona ==
    /\ (~bot_created /\ edits = 0) => bot_config = InitConfig
    /\ (bot_created \/ edits > 0) => StoredPromptIsTemplate
    /\ pc = "processing" =>
          /\ api_messages[1] = [role |-> "system", content |-> bot_config.system_prompt]
          /\ StoredPromptIsTemplate

C3_Witness ==
    /\ pc = "processing"
    /\ edits = 1
    /\ bot_config.bot_name = "Luna"
    /\ bot_config.bot_personality = "silly"

\* C4: clear chat resets the transcript to the single seeded greeting built
\* from the stored creator name and bot name, and leaves the persona config,
\* the system prompt and the created flag as they were.
C4_ClearChat ==
    [][last_event' = "clear" =>
          /\ bot_created
          /\ Len(chat_messages') = 1
          /\ chat_messages'[1].role = "assistant"
          /\ chat_messages'[1].content =
                GreetingContent(bot_config.creator_name, bot_config.bot_name)
          /\ bot_config' = bot_config
          /\ bot_created' = bot_created]_vars

C4_Witness ==
    /\ last_event = "clear"
    /\ submitted = 2
    /\ edits = 1
    /\ chat_messages = <<Greeting("Leo", "Luna")>>

\* C5: the message list sent to the service is one system message carrying
\* the stored system prompt followed by the whole transcript in order, the
\* just-appended user message included, so its last message is the user
\* entry of this turn.
C5_RequestShape ==
    pc = "processing" =>
        /\ Len(api_messages) = Len(turn.T) + 2
        /\ api_messages[1] = [role |-> "system", content |-> bot_config.system_prompt]
        /\ SubSeq(api_messages, 2, Len(turn.T) + 1) = turn.T
        /\ Last(api_messages) = [role |-> "user", content |-> turn.U]
        /\ SubSeq(api_messages, 2, Len(api_messages)) = chat_messages

C5_Witness ==
    /\ pc = "processing"
    /\ Len(api_messages) = 5
    /\ turn.U = "hi"

\* C6: the number of service calls equals the number of user messages
\* submitted; a call is made only by a chat submission, one per submission,
\* never by create, edit, clear chat or the return of a failed call.
C6_OneCallPerMessage ==
    /\ [](calls = submitted)
    /\ [][calls' # calls => (last_event' = "submit" /\ calls' = calls + 1)]_vars

C6_Witness ==
    /\ TurnDone
    /\ ~turn.outcome.ok
    /\ calls = 2
    /\ edits = 1

\* C7: a create confirmation that follows an edit stores exactly the entered
\* persona (all four fields and the prompt built from them) and a transcript
\* that is the single greeting of the new persona, with no message of the
\* earlier transcript carried over.
C7_EditReplaces ==
    [][(~bot_created /\ bot_created' /\ edits > 0) =>
          /\ bot_config'.bot_name = bot_name_input
          /\ bot_config'.creator_name = creator_input
          /\ bot_config'.bot_personality = bot_personality
          /\ bot_config'.bot_specialty = bot_specialty
          /\ bot_config'.system_prompt =
                SystemPromptTemplate(bot_name_input, creator_input,
                                     bot_personality, bot_specialty)
          /\ chat_messages' = <<[role |-> "assistant",
                                 content |-> GreetingContent(creator_input, bot_name_input)]>>
          /\ \A i \in 1..Len(chat_messages) :
                chat_messages[i] \in Range(chat_messages')
                    => chat_messages[i].content =
                          GreetingContent(creator_input, bot_name_input)]_vars

C7_Witness ==
    /\ last_event = "create"
    /\ edits = 1
    /\ Len(discarded.messages) = 5
    /\ discarded.config.bot_name # bot_config.bot_name
    /\ discarded.config.creator_name # bot_config.creator_name
    /\ discarded.config.bot_personality # bot_config.bot_personality
    /\ discarded.config.bot_specialty # bot_config.bot_specialty
    /\ Len(chat_messages) = 1

\* C8 as stated: the content of the entry appended on failure is the warning
\* sign, "Oops! Something went wrong: ", the error text, then
\* ". Make sure the API key is set correctly!".
C8_Original ==
    (TurnDone /\ ~turn.outcome.ok) =>
        Last(chat_messages).content =
            WarningSign \o " Oops! Something went wrong: " \o turn.outcome.text
            \o ". Make sure the API key is set correctly!"

\* C8 (amended): the content of the entry appended on failure is the warning
\* sign, " Oops! Something went wrong: ", the error text verbatim, two
\* newlines, then "Make sure the API key is set correctly!".
C8_ErrorText ==
    (TurnDone /\ ~turn.outcome.ok) =>
        Last(chat_messages).content =
            WarningSign \o " Oops! Something went wrong: " \o turn.outcome.text
            \o "\n\n" \o "Make sure the API key is set correctly!"

C8_Witness ==
    /\ TurnDone
    /\ ~turn.outcome.ok
    /\ turn.outcome.text = "Connection error."
    /\ Len(chat_messages) = 5

\* C9: whenever the created flag is true all four stored persona fields are
\* non-empty, and the flag is set only when all four entered fields are
\* non-empty.
C9_CompletePersona ==
    /\ [](bot_created =>
            /\ bot_config.bot_name # ""
            /\ bot_config.creator_name # ""
            /\ bot_config.bot_personality # ""
            /\ bot_config.bot_specialty # "")
    /\ [][(~bot_created /\ bot_created') =>
            /\ bot_name_input # ""
            /\ creator_input # ""
            /\ bot_personality # ""
            /\ bot_specialty # ""]_vars

C9_Witness ==
    /\ bot_created
    /\ last_event = "create"
    /\ bot_config.bot_personality = "silly"
    /\ bot_config.bot_specialty = "telling amazing stories and adventures"

Alternates(m) ==
    \A i \in 2..Len(m) : m[i].role = IF i % 2 = 0 THEN "user" ELSE "assistant"

StableTranscript ==
    /\ Len(chat_messages) >= 1
    /\ chat_messages[1].role = "assistant"
    /\ chat_messages[1].content =
          GreetingContent(bot_config.creator_name, bot_config.bot_name)
    /\ Alternates(chat_messages)
    /\ Last(chat_messages).role = "assistant"

\* C10: whenever a created session awaits user input its transcript starts
\* with the seeded greeting, alternates user and assistant entries after it
\* and ends with an assistant entry; a trailing user entry is stored only
\* while a call is in progress; every started turn returns to awaiting input.
C10_NoPartialTranscript ==
    /\ []((bot_created /\ pc = "awaiting") => StableTranscript)
    /\ []((chat_messages # <<>> /\ Last(chat_messages).role = "user")
            => pc = "processing")
    /\ (pc = "processing" ~> pc = "awaiting")

C10_Witness ==
    /\ bot_created
    /\ pc = "awaiting"
    /\ TurnDone
    /\ Len(chat_messages) = 5
    /\ ~turn.outcome.ok

====
